---- MODULE Spec2Model ----
(***************************************************************************)
(* The form-hole HTTP endpoint: exports.app of src/functions/index.js and  *)
(* of the second copy of the handler, src/unnamed/part_000.  One handler   *)
(* validates a two-field form POST and adds it to the "submissions"        *)
(* collection, renders the collection on GET, and answers 405 otherwise.   *)
(*                                                                         *)
(* JavaScript values are records [t, v]: t is the typeof tag and v the     *)
(* string's text.  A text is the sequence of its runs [c, n], n >= 1       *)
(* copies of the character c, no two neighbouring runs of the same         *)
(* character: one text per string, so equal strings are equal values, and  *)
(* a name of 100 characters stays small.  The static                       *)
(* head/style/script shell of the page is the same text in every GET of a  *)
(* variant and is left out of the page value; the page is the             *)
(* ${submissionsHtml} part.                                                *)
(***************************************************************************)
EXTENDS Integers, Sequences, FiniteSets, TLC

VARIABLES
  variant,   \* which copy of the handler is deployed: "index" or "part_000"
  store,     \* the "submissions" collection, documents in commit order
  pending,   \* db.collection("submissions").add(submission) calls in flight
  clock,     \* the server's clock, what new Date() reads
  resp,      \* the response sent last
  call,      \* how the store call of that request ended, "" if it made none
  prevPage,  \* the page of the last 200 GET before that response, if the
             \* collection has not changed since
  arg,       \* argument handed to a function applied on its own
  ret        \* what that function returned

vars == <<variant, store, pending, clock, resp, call, prevPage, arg, ret>>

----------------------------------------------------------------------------
\* Bounds of the model.

\* submissions accepted (added or in flight) beyond the initial collection
MaxWrites == 2
\* largest value the server clock reaches
MaxClock == 1
\* longest string handed to escapeHtml on its own
MaxStrLen == 3

\* Program constants.
NameMax == 100
MessageMax == 2000
LimitIndex == 500
LimitPart == 50

----------------------------------------------------------------------------
\* JavaScript values.

Str(s) == [t |-> "string", v |-> s]
Undefined == [t |-> "undefined", v |-> <<>>]
\* what the body parser yields for name=a&name=b: an array, typeof "object"
Arr(s) == [t |-> "object", v |-> s]

Truthy(x) == IF x.t = "string" THEN x.v # <<>> ELSE x.t # "undefined"

\* Texts.

\* n copies of the character c
Rep(c, n) == IF n = 0 THEN <<>> ELSE <<[c |-> c, n |-> n]>>

\* a + b
Cat(a, b) ==
  IF a = <<>> THEN b
  ELSE IF b = <<>> THEN a
  ELSE IF a[Len(a)].c = b[1].c
    THEN SubSeq(a, 1, Len(a) - 1)
           \o <<[c |-> b[1].c, n |-> a[Len(a)].n + b[1].n]>> \o Tail(b)
  ELSE a \o b

\* the text of a string given by its characters
RECURSIVE Text(_)
Text(chars) ==
  IF chars = <<>> THEN <<>>
  ELSE Cat(Text(SubSeq(chars, 1, Len(chars) - 1)), Rep(chars[Len(chars)], 1))

\* the characters of a text
RECURSIVE Chars(_)
Chars(s) ==
  IF s = <<>> THEN <<>>
  ELSE [i \in 1..s[1].n |-> s[1].c] \o Chars(Tail(s))

\* String.prototype.length
RECURSIVE Length(_)
Length(s) == IF s = <<>> THEN 0 ELSE s[1].n + Length(Tail(s))

WhiteSpace == {" ", "\t", "\n"}

RECURSIVE TrimStart(_)
TrimStart(s) ==
  IF s = <<>> THEN s
  ELSE IF s[1].c \in WhiteSpace THEN TrimStart(Tail(s)) ELSE s

RECURSIVE TrimEnd(_)
TrimEnd(s) ==
  IF s = <<>> THEN s
  ELSE IF s[Len(s)].c \in WhiteSpace THEN TrimEnd(SubSeq(s, 1, Len(s) - 1)) ELSE s

\* String.prototype.trim
Trim(s) == TrimEnd(TrimStart(s))

\* String.prototype.includes
Includes(s, sub) ==
  LET cs == Chars(s)
      csub == Chars(sub)
  IN  \E i \in 0..(Len(cs) - Len(csub)) : SubSeq(cs, i + 1, i + Len(csub)) = csub

\* req.body[k], undefined when the key is not there
Field(body, k) == IF k \in DOMAIN body THEN body[k] ELSE Undefined

----------------------------------------------------------------------------
\* Requests.  A request is [method, ct, body]: ct is the content-type header
\* (Undefined when the header is absent) and body the mapping the platform
\* parsed, a key with value Undefined being a key that is not in the body.

FormUrlEncoded ==
  Text(<< "a","p","p","l","i","c","a","t","i","o","n","/","x","-","w","w","w","-",
          "f","o","r","m","-","u","r","l","e","n","c","o","d","e","d" >>)

Keys(body) == {k \in DOMAIN body : body[k].t # "undefined"}

MsgFormat == "Invalid request format. Expected URL-encoded data."
MsgName == "Validation Error: 'name' field is required and cannot be empty."
MsgMessage == "Validation Error: 'message' field is required and cannot be empty."
MsgNameLen == "Validation Error: 'name' field must be 100 characters or less."
MsgMessageLen == "Validation Error: 'message' field must be 2000 characters or less."
MsgFields == "Validation Error: Only 'name' and 'message' fields are allowed."
MsgPostError == "Server Error: Could not process your submission."
MsgGetError == "Server Error: Could not retrieve submissions."
MsgMethod == "Method Not Allowed. Only GET and POST are supported."
MsgThanks ==
  IF variant = "index"
  THEN "Thanks for your message! It will be recorded for all eternity."
  ELSE "Thanks for writing your message!"
Pass == ""

allowedFields == {"name", "message"}

\* The field-set check placed before the two length checks.
ValidateFieldsFirst(req) ==
  LET contentType == req.ct
      name == Field(req.body, "name")
      message == Field(req.body, "message")
      receivedFields == Keys(req.body)
  IN  IF ~Truthy(contentType) \/ ~Includes(contentType.v, FormUrlEncoded)
        THEN MsgFormat
      ELSE IF ~Truthy(name) \/ name.t # "string" \/ Trim(name.v) = <<>>
        THEN MsgName
      ELSE IF ~Truthy(message) \/ message.t # "string" \/ Trim(message.v) = <<>>
        THEN MsgMessage
      ELSE IF Cardinality(receivedFields) # Cardinality(allowedFields)
              \/ ~(\A field \in receivedFields : field \in allowedFields)
        THEN MsgFields
      ELSE IF Length(name.v) > NameMax
        THEN MsgNameLen
      ELSE IF Length(message.v) > MessageMax
        THEN MsgMessageLen
      ELSE Pass

\* The two length checks with >= in place of >.
ValidateOffByOne(req) ==
  LET contentType == req.ct
      name == Field(req.body, "name")
      message == Field(req.body, "message")
      receivedFields == Keys(req.body)
  IN  IF ~Truthy(contentType) \/ ~Includes(contentType.v, FormUrlEncoded)
        THEN MsgFormat
      ELSE IF ~Truthy(name) \/ name.t # "string" \/ Trim(name.v) = <<>>
        THEN MsgName
      ELSE IF ~Truthy(message) \/ message.t # "string" \/ Trim(message.v) = <<>>
        THEN MsgMessage
      ELSE IF Length(name.v) >= NameMax
        THEN MsgNameLen
      ELSE IF Length(message.v) >= MessageMax
        THEN MsgMessageLen
      ELSE IF Cardinality(receivedFields) # Cardinality(allowedFields)
              \/ ~(\A field \in receivedFields : field \in allowedFields)
        THEN MsgFields
      ELSE Pass

\* The checks of the POST branch, in the order of the code; the text of the
\* first 400 sent, or Pass.
Validate(req) ==
  LET contentType == req.ct
      name == Field(req.body, "name")
      message == Field(req.body, "message")
      receivedFields == Keys(req.body)
  IN  IF ~Truthy(contentType) \/ ~Includes(contentType.v, FormUrlEncoded)
        THEN MsgFormat
      ELSE IF ~Truthy(name) \/ name.t # "string" \/ Trim(name.v) = <<>>
        THEN MsgName
      ELSE IF ~Truthy(message) \/ message.t # "string" \/ Trim(message.v) = <<>>
        THEN MsgMessage
      ELSE IF Length(name.v) > NameMax
        THEN MsgNameLen
      ELSE IF Length(message.v) > MessageMax
        THEN MsgMessageLen
      ELSE IF Cardinality(receivedFields) # Cardinality(allowedFields)
              \/ ~(\A field \in receivedFields : field \in allowedFields)
        THEN MsgFields
      ELSE Pass

\* new Date()
Date(n) == [k |-> "Date", n |-> n]

\* The submission object with the fields as received.
SubmissionUntrimmed(req) ==
  [ name |-> req.body.name,
    message |-> req.body.message,
    timestamp |-> Date(clock) ]

\* const submission = {name: name.trim(), message: message.trim(), timestamp: new Date()}
Submission(req) ==
  [ name |-> Str(Trim(req.body.name.v)),
    message |-> Str(Trim(req.body.message.v)),
    timestamp |-> Date(clock) ]

----------------------------------------------------------------------------
\* escapeHtml.

\* entity, n times over
RECURSIVE Repeat(_, _)
Repeat(entity, n) == IF n = 0 THEN <<>> ELSE Cat(entity, Repeat(entity, n - 1))

\* unsafe.replace(/c/g, entity): every occurrence of the character c
RECURSIVE ReplaceAll(_, _, _)
ReplaceAll(s, c, entity) ==
  IF s = <<>> THEN s
  ELSE Cat(IF s[1].c = c THEN Repeat(entity, s[1].n) ELSE <<s[1]>>,
           ReplaceAll(Tail(s), c, entity))

\* The replacement strings of src/functions/index.js: no closing semicolon.
EntityIndex(c) ==
  CASE c = "&" -> Text(<<"&", "a", "m", "p">>)
    [] c = "<" -> Text(<<"&", "l", "t">>)
    [] c = ">" -> Text(<<"&", "g", "t">>)
    [] c = "\"" -> Text(<<"&", "q", "u", "o", "t">>)
    [] c = "'" -> Text(<<"&", "#", "0", "3", "9">>)

\* The replacement strings of src/unnamed/part_000.
EntityPart(c) ==
  CASE c = "&" -> Text(<<"&", "a", "m", "p", ";">>)
    [] c = "<" -> Text(<<"&", "l", "t", ";">>)
    [] c = ">" -> Text(<<"&", "g", "t", ";">>)
    [] c = "\"" -> Text(<<"&", "q", "u", "o", "t", ";">>)
    [] c = "'" -> Text(<<"&", "#", "0", "3", "9", ";">>)

Entity(c) == IF variant = "index" THEN EntityIndex(c) ELSE EntityPart(c)

escapeHtml(unsafe) ==
  IF unsafe.t # "string" THEN unsafe
  ELSE Str(ReplaceAll(ReplaceAll(ReplaceAll(ReplaceAll(ReplaceAll(unsafe.v,
         "&", Entity("&")), "<", Entity("<")), ">", Entity(">")),
         "\"", Entity("\"")), "'", Entity("'")))

----------------------------------------------------------------------------
\* The Submission Store: db.collection("submissions").  A document is
\* [id, data]; data.timestamp is [k, n] with k the kind of the stored value
\* ("Timestamp" for what add() makes of a Date) and n the instant.

\* what add() stores for the submission: the Date becomes a Timestamp
Stored(submission) ==
  [submission EXCEPT !.timestamp = [k |-> "Timestamp", n |-> submission.timestamp.n]]

\* Firestore's order of values of different types: null, then timestamps,
\* then strings
TypeRank(ts) == CASE ts.k = "null" -> 0 [] ts.k = "Timestamp" -> 1 [] OTHER -> 2

\* a sorts before b under orderBy("timestamp", "desc"); documents that tie
\* are ordered by document id, in the same direction
Before(a, b) ==
  LET ta == a.data.timestamp
      tb == b.data.timestamp
  IN  \/ TypeRank(ta) > TypeRank(tb)
      \/ TypeRank(ta) = TypeRank(tb) /\ ta.n > tb.n
      \/ TypeRank(ta) = TypeRank(tb) /\ ta.n = tb.n /\ a.id > b.id

\* two ordered sequences merged into one: the middle document of a goes
\* between the documents of b that sort before it and the rest of b
RECURSIVE Merge(_, _)
Merge(a, b) ==
  IF a = <<>> THEN b
  ELSE IF b = <<>> THEN a
  ELSE LET h == (Len(a) + 1) \div 2
           k == Cardinality({j \in DOMAIN b : Before(b[j], a[h])})
       IN  Merge(SubSeq(a, 1, h - 1), SubSeq(b, 1, k)) \o <<a[h]>>
             \o Merge(SubSeq(a, h + 1, Len(a)), SubSeq(b, k + 1, Len(b)))

RECURSIVE OrderBy(_)
OrderBy(docs) ==
  IF Len(docs) <= 1 THEN docs
  ELSE LET h == Len(docs) \div 2
       IN  Merge(OrderBy(SubSeq(docs, 1, h)), OrderBy(SubSeq(docs, h + 1, Len(docs))))

\* a query that is not limited
LimitNone(docs, n) == docs

\* .limit(n)
Limit(docs, n) == IF Len(docs) <= n THEN docs ELSE SubSeq(docs, 1, n)

QueryLimit == IF variant = "index" THEN LimitIndex ELSE LimitPart

\* orderBy filters for the existence of the field it orders by
HasTimestamp(doc) == doc.data.timestamp.k # "undefined"

RECURSIVE Select(_)
Select(docs) ==
  IF Len(docs) = 0 THEN docs
  ELSE IF Len(docs) = 1 THEN (IF HasTimestamp(docs[1]) THEN docs ELSE <<>>)
  ELSE LET h == Len(docs) \div 2
       IN  Select(SubSeq(docs, 1, h)) \o Select(SubSeq(docs, h + 1, Len(docs)))

\* snapshot.docs of
\* db.collection("submissions").orderBy("timestamp", "desc").limit(N).get()
Query(docs) == Limit(OrderBy(Select(docs)), QueryLimit)

----------------------------------------------------------------------------
\* Rendering of the GET page.

DigitChars == <<"0", "1", "2", "3", "4", "5", "6", "7", "8", "9">>

RECURSIVE Digits(_)
Digits(n) ==
  IF n < 10 THEN Rep(DigitChars[n + 1], 1)
  ELSE Cat(Digits(n \div 10), Rep(DigitChars[(n % 10) + 1], 1))

\* timestamp.toDate().toISOString(): the instant, machine-readable
toISOString(n) == Cat(Digits(n), Text(<<"Z">>))

\* The time shown as the time elapsed since the instant.
toLocaleStringAgo(n) ==
  Cat(Digits(IF clock >= n THEN clock - n ELSE 0), Text(<<" ", "a", "g", "o">>))

\* timestamp.toDate().toLocaleString("en-US"): the instant, for display
toLocaleString(n) == Cat(Digits(n), Text(<<" ", "P", "M">>))

NA == Str(Text(<<"N", "/", "A">>))

\* sub.timestamp.toDate() is a TypeError unless the value is a Timestamp
ThrowsIndex(doc) == doc.data.timestamp.k # "Timestamp"

\* one <div class="submission"> of src/functions/index.js
BlockIndex(doc) ==
  LET sub == doc.data
  IN  [ name |-> escapeHtml(sub.name),
        stamp |-> escapeHtml(Str(toISOString(sub.timestamp.n))),
        time |-> escapeHtml(Str(toLocaleString(sub.timestamp.n))),
        message |-> escapeHtml(sub.message) ]

\* data.timestamp ? data.timestamp.toDate()... : "N/A" is a TypeError for a
\* truthy value that is no Timestamp
ThrowsPart(doc) == doc.data.timestamp.k \notin {"Timestamp", "null"}

\* one <div class="submission"> of src/unnamed/part_000; sub.rawTimestamp is
\* never set, so the data-timestamp attribute is the empty string
BlockPart(doc) ==
  LET data == doc.data
      formattedTimestamp ==
        IF data.timestamp.k = "Timestamp"
        THEN Str(toLocaleString(data.timestamp.n)) ELSE NA
      sub == [ name |-> IF Truthy(data.name) THEN data.name ELSE NA,
               message |-> IF Truthy(data.message) THEN data.message ELSE NA,
               timestamp |-> formattedTimestamp ]
  IN  [ name |-> escapeHtml(sub.name),
        stamp |-> Str(<<>>),
        time |-> escapeHtml(sub.timestamp),
        message |-> escapeHtml(sub.message) ]

Throws(doc) == IF variant = "index" THEN ThrowsIndex(doc) ELSE ThrowsPart(doc)

Block(doc) == IF variant = "index" THEN BlockIndex(doc) ELSE BlockPart(doc)

\* submissionsHtml: the placeholder, or one block per document of the snapshot
Page(docs) ==
  [ placeholder |-> Len(docs) = 0,
    blocks |-> [i \in 1..Len(docs) |-> Block(docs[i])] ]

----------------------------------------------------------------------------
\* Responses.

NoBody == [name |-> Undefined, message |-> Undefined, timestamp |-> Undefined]

NoRequest == [method |-> "", ct |-> Undefined, body |-> NoBody]

\* res.status(status).send(text or page); n tells a response from the one
\* before it
Response(req, status, text, page) ==
  [ n |-> 1 - resp.n, method |-> req.method, status |-> status, text |-> text,
    page |-> page, req |-> req ]

----------------------------------------------------------------------------
\* The requests the model sends.

NameVals ==
  { Undefined, Str(<<>>), Str(Text(<<" ", "\t">>)), Arr(Text(<<"a">>)),
    Str(Text(<<" ", "&", "<", "b", ">", "\n">>)),
    Str(Rep("x", NameMax)), Str(Cat(Rep(" ", 1), Rep("x", NameMax))),
    Str(Rep("x", NameMax + 1)) }

MessageVals ==
  { Undefined, Str(Text(<<"\n">>)), Str(Text(<<"'", "m", "\"", " ">>)),
    Str(Rep("y", MessageMax)), Str(Cat(Rep("y", MessageMax), Rep("\n", 1))) }

ExtraVals == { Undefined, Str(Text(<<"9">>)) }

JsonType ==
  Str(Text(<<"a","p","p","l","i","c","a","t","i","o","n","/","j","s","o","n">>))

FormType ==
  Str(Cat(FormUrlEncoded,
          Text(<<";", " ", "c", "h", "a", "r", "s", "e", "t", "=", "U", "T", "F", "-", "8">>)))

ContentTypes == { Undefined, JsonType, FormType }

Post1(ct, name, message, extra) ==
  [ method |-> "POST", ct |-> ct,
    body |-> [name |-> name, message |-> message, timestamp |-> extra] ]

\* every shape of POST
AllPostRequests ==
  { Post1(c, nm, m, e) :
      c \in ContentTypes, nm \in NameVals, m \in MessageVals, e \in ExtraVals }

ShortName == Str(Text(<<" ", "&", "<", "b", ">", "\n">>))

ShortMessage == Str(Text(<<"'", "m", "\"", " ">>))

\* the POSTs that clients send concurrently
PostRequests ==
  { Post1(FormType, ShortName, ShortMessage, Undefined),
    Post1(FormType, Str(Rep("x", NameMax)), Str(Rep("y", MessageMax)), Undefined),
    Post1(FormType, ShortName, ShortMessage, Str(Text(<<"9">>))) }

GetRequest == [method |-> "GET", ct |-> Undefined, body |-> NoBody]

OtherMethods == {"PUT", "DELETE"}

Variants == {"index", "part_000"}

----------------------------------------------------------------------------
\* The handler.

\* ids the store has not given to a document yet
NewIds == 1..MaxWrites

FreeIds == NewIds \ {store[i].id : i \in DOMAIN store}

Remove(s, i) == SubSeq(s, 1, i - 1) \o SubSeq(s, i + 1, Len(s))

\* what prevPage becomes when a response is sent and the collection is as it
\* was
Shift ==
  IF resp.method = "GET" /\ resp.status = 200 THEN resp.page ELSE prevPage

\* A rejected request that is written to the store all the same.
RejectWrites(req, text) ==
  /\ resp' = Response(req, 400, text, <<>>)
  /\ call' = "resolved"
  /\ store' = Append(store, [id |-> 0, data |-> Stored(SubmissionUntrimmed(req))])
  /\ prevPage' = <<>>
  /\ UNCHANGED <<variant, pending, clock, arg, ret>>

\* a failed check: logger.warn, res.status(400).send(text), return
Reject(req, text) ==
  /\ resp' = Response(req, 400, text, <<>>)
  /\ call' = ""
  /\ prevPage' = Shift
  /\ UNCHANGED <<variant, store, pending, clock, arg, ret>>

\* the checks passed: the submission is built and add() is called
Accept(req) ==
  /\ Cardinality(FreeIds) > Len(pending)
  /\ pending' = Append(pending, [req |-> req, submission |-> Submission(req)])
  /\ UNCHANGED <<variant, store, clock, resp, call, prevPage, arg, ret>>

\* POST, up to the await
Post(req) ==
  /\ req.method = "POST"
  /\ IF Validate(req) # Pass THEN Reject(req, Validate(req)) ELSE Accept(req)

\* add() resolves: the document is in the collection, the handler sends 200
AddOk(i) ==
  /\ \E id \in FreeIds :
       store' = Append(store, [id |-> id, data |-> Stored(pending[i].submission)])
  /\ pending' = Remove(pending, i)
  /\ resp' = Response(pending[i].req, 200, MsgThanks, <<>>)
  /\ call' = "resolved"
  /\ prevPage' = <<>>
  /\ UNCHANGED <<variant, clock, arg, ret>>

\* A rejected add() answered like one that resolved.
PostCatchThanks(req) == Response(req, 200, MsgThanks, <<>>)

\* catch (error): logger.error, res.status(500).send(...)
PostCatch(req) == Response(req, 500, MsgPostError, <<>>)

\* add() rejects: the catch block answers; nothing is written, nothing retried
AddFail(i) ==
  /\ resp' = PostCatch(pending[i].req)
  /\ call' = "rejected"
  /\ pending' = Remove(pending, i)
  /\ prevPage' = Shift
  /\ UNCHANGED <<variant, store, clock, arg, ret>>

\* catch (error): logger.error, res.status(500).send(...)
GetCatch == Response(GetRequest, 500, MsgGetError, <<>>)

\* GET: the query resolves and the page is rendered, or rendering throws and
\* the catch block answers
Get ==
  \E docs \in {Query(store)} :
    /\ IF \E i \in DOMAIN docs : Throws(docs[i])
       THEN resp' = GetCatch
       ELSE resp' = Response(GetRequest, 200, "", <<Page(docs)>>)
    /\ call' = "resolved"
    /\ prevPage' = Shift
    /\ UNCHANGED <<variant, store, pending, clock, arg, ret>>

\* GET: the query rejects
GetFail ==
  /\ resp' = GetCatch
  /\ call' = "rejected"
  /\ prevPage' = Shift
  /\ UNCHANGED <<variant, store, pending, clock, arg, ret>>

\* any other method
Other(method) ==
  /\ resp' = Response([method |-> method, ct |-> Undefined, body |-> NoBody],
                      405, MsgMethod, <<>>)
  /\ call' = ""
  /\ prevPage' = Shift
  /\ UNCHANGED <<variant, store, pending, clock, arg, ret>>

\* time passes on the server
Tick ==
  /\ clock < MaxClock
  /\ clock' = clock + 1
  /\ UNCHANGED <<variant, store, pending, resp, call, prevPage, arg, ret>>

NoResponse ==
  [ n |-> 0, method |-> "", status |-> 0, text |-> "", page |-> <<>>,
    req |-> NoRequest ]

Init ==
  /\ variant \in Variants
  /\ store = <<>>
  /\ pending = <<>>
  /\ clock = 0
  /\ resp = NoResponse
  /\ call = ""
  /\ prevPage = <<>>
  /\ arg = Undefined
  /\ ret = Undefined

Next ==
  \/ \E req \in PostRequests : Post(req)
  \/ \E i \in DOMAIN pending : AddOk(i)
  \/ \E i \in DOMAIN pending : AddFail(i)
  \/ Get
  \/ GetFail
  \/ Other("PUT")
  \/ Tick

Spec == Init /\ [][Next]_vars

\* One shape of POST, sent any number of times, among the other requests.
InitRequest ==
  /\ variant \in Variants
  /\ store = <<>>
  /\ pending = <<>>
  /\ clock = 0
  /\ resp = NoResponse
  /\ call = ""
  /\ prevPage = <<>>
  /\ arg \in AllPostRequests
  /\ ret = Undefined

NextRequest ==
  \/ Post(arg)
  \/ \E i \in DOMAIN pending : AddOk(i)
  \/ \E i \in DOMAIN pending : AddFail(i)
  \/ Get
  \/ GetFail
  \/ \E method \in OtherMethods : Other(method)
  \/ Tick

SpecRequest == InitRequest /\ [][NextRequest]_vars

\* The collection already holds submissions the handler wrote: none, or one
\* fewer than the limit of the query.
Written(i) ==
  [ id |-> MaxWrites + i,
    data |-> [ name |-> Str(Text(<<"a">>)), message |-> Str(Text(<<"m">>)),
               timestamp |-> [k |-> "Timestamp", n |-> 0] ] ]

InitLoaded ==
  /\ variant \in Variants
  /\ \E size \in {0, QueryLimit - 1} : store = [i \in 1..size |-> Written(i)]
  /\ pending = <<>>
  /\ clock = 0
  /\ resp = NoResponse
  /\ call = ""
  /\ prevPage = <<>>
  /\ arg = Undefined
  /\ ret = Undefined

\* the clients send one shape of POST, GET and DELETE
NextLoaded ==
  \/ Post(Post1(FormType, ShortName, ShortMessage, Undefined))
  \/ \E i \in DOMAIN pending : AddOk(i)
  \/ \E i \in DOMAIN pending : AddFail(i)
  \/ Get
  \/ GetFail
  \/ Other("DELETE")
  \/ Tick

SpecLoaded == InitLoaded /\ [][NextLoaded]_vars

\* The collection already holds documents that something else wrote, with a
\* timestamp field that is a Timestamp, null, a string, or not there.
Foreign(i, kind) ==
  [ id |-> MaxWrites + i,
    data |-> [ name |-> Str(Text(<<"a">>)), message |-> Str(Text(<<"m">>)),
               timestamp |-> [k |-> kind, n |-> 0] ] ]

ForeignKinds ==
  { <<"null">>, <<"string">>, <<"undefined">>, <<"Timestamp", "null">>,
    <<"undefined", "Timestamp">> }

InitForeign ==
  /\ variant \in Variants
  /\ \E kinds \in ForeignKinds :
       store = [i \in DOMAIN kinds |-> Foreign(i, kinds[i])]
  /\ pending = <<>>
  /\ clock = 0
  /\ resp = NoResponse
  /\ call = ""
  /\ prevPage = <<>>
  /\ arg = Undefined
  /\ ret = Undefined

SpecForeign == InitForeign /\ [][Next]_vars

\* escapeHtml applied on its own to every short string over the characters it
\* replaces and two it does not, and to values that are no strings.
Alphabet == {"&", "<", ">", "\"", "'", "a", ";"}

EscapeInputs ==
  { Str(Text(cs)) : cs \in UNION {[1..k -> Alphabet] : k \in 0..MaxStrLen} }
    \cup {Undefined, Arr(Text(<<"<">>))}

NotCalled == [t |-> "", v |-> <<>>]

InitEscape ==
  /\ variant \in Variants
  /\ store = <<>>
  /\ pending = <<>>
  /\ clock = 0
  /\ resp = NoResponse
  /\ call = ""
  /\ prevPage = <<>>
  /\ arg \in EscapeInputs
  /\ ret = NotCalled

CallEscapeHtml ==
  /\ ret' = escapeHtml(arg)
  /\ UNCHANGED <<variant, store, pending, clock, resp, call, prevPage, arg>>

NextEscape == CallEscapeHtml

SpecEscape == InitEscape /\ [][NextEscape]_vars

----------------------------------------------------------------------------
\* What the claims speak of.

UrlEncoded(req) == req.ct.t = "string" /\ Includes(req.ct.v, FormUrlEncoded)

IsText(x) == x.t = "string"

ExactFields(req) == Keys(req.body) = {"name", "message"}

\* a response has just been sent
Answered == resp'.n # resp.n

LastDoc == store'[Len(store')]

\* the store gained exactly one record, with the trimmed values of req
GainedTrimmed(req) ==
  /\ Len(store') = Len(store) + 1
  /\ SubSeq(store', 1, Len(store)) = store
  /\ LastDoc.data.name = Str(Trim(req.body.name.v))
  /\ LastDoc.data.message = Str(Trim(req.body.message.v))

\* name and message of 1..100 and 1..2000 characters after trimming
TrimmedInRange(req) ==
  /\ UrlEncoded(req) /\ ExactFields(req)
  /\ IsText(req.body.name) /\ IsText(req.body.message)
  /\ Length(Trim(req.body.name.v)) \in 1..NameMax
  /\ Length(Trim(req.body.message.v)) \in 1..MessageMax

\* and of at most 100 and 2000 characters as received
ReceivedInRange(req) ==
  /\ TrimmedInRange(req)
  /\ Length(req.body.name.v) <= NameMax
  /\ Length(req.body.message.v) <= MessageMax

\* C1, as stated: every POST with the url-encoded content type and exactly
\* the fields name and message, of 1..100 and 1..2000 characters after
\* trimming, is answered 200 and adds exactly one record with the trimmed
\* values (a POST whose add() the store rejects is the case of C7).
C1_AsStated ==
  [][ Answered /\ resp'.method = "POST" /\ TrimmedInRange(resp'.req)
        /\ call' # "rejected"
      => resp'.status = 200 /\ GainedTrimmed(resp'.req) ]_vars

\* C1, amended: the same for name and message of at most 100 and 2000
\* characters as received and at least one character after trimming, when
\* the store does not reject the add().
C1_ValidPostStored ==
  [][ Answered /\ resp'.method = "POST" /\ ReceivedInRange(resp'.req)
        /\ call' # "rejected"
      => resp'.status = 200 /\ GainedTrimmed(resp'.req) ]_vars

\* a 200 to a name of exactly 100 characters and a message that trimming
\* shortened, now the last record
C1_Witness ==
  /\ resp.method = "POST" /\ resp.status = 200
  /\ Length(resp.req.body.name.v) = NameMax
  /\ Trim(resp.req.body.message.v) # resp.req.body.message.v
  /\ Len(store) > 0
  /\ store[Len(store)].data.message = Str(Trim(resp.req.body.message.v))

\* the six checks, each on its own, in the order the claim gives
Failed(req) ==
  LET name == Field(req.body, "name")
      message == Field(req.body, "message")
  IN  << ~UrlEncoded(req),
         ~IsText(name) \/ Trim(name.v) = <<>>,
         ~IsText(message) \/ Trim(message.v) = <<>>,
         IsText(name) /\ Length(name.v) > NameMax,
         IsText(message) /\ Length(message.v) > MessageMax,
         ~ExactFields(req) >>

Texts == <<MsgFormat, MsgName, MsgMessage, MsgNameLen, MsgMessageLen, MsgFields>>

FirstFailed(req) ==
  CHOOSE i \in 1..6 : Failed(req)[i] /\ \A j \in 1..(i - 1) : ~Failed(req)[j]

\* C2: a POST is answered 400 exactly when one of the six checks fails, and
\* then with the text of the first check, in the fixed order, that fails.
C2_FirstFailingCheck ==
  resp.method = "POST" =>
    IF \E i \in 1..6 : Failed(resp.req)[i]
    THEN resp.status = 400 /\ resp.text = Texts[FirstFailed(resp.req)]
    ELSE resp.status # 400

\* an over-long name with an extra field, answered with the name-length text
C2_Witness ==
  /\ resp.method = "POST" /\ resp.status = 400
  /\ Failed(resp.req)[4] /\ Failed(resp.req)[6]
  /\ resp.text = MsgNameLen

\* C3: a request answered 400 or 405 made no store call and left the records
\* as they were.
C3_RejectedNoStore ==
  [][ Answered /\ resp'.status \in {400, 405}
      => call' = "" /\ store' = store /\ pending' = pending ]_vars

\* a 405 sent while the collection holds a record and an add() is in flight
C3_Witness ==
  /\ resp.status = 405 /\ call = ""
  /\ Len(store) > 0 /\ Len(pending) > 0

\* every character replaced at once, the five by their entities
EscapedChar(c) ==
  CASE c = "&" -> <<"&", "a", "m", "p", ";">>
    [] c = "<" -> <<"&", "l", "t", ";">>
    [] c = ">" -> <<"&", "g", "t", ";">>
    [] c = "\"" -> <<"&", "q", "u", "o", "t", ";">>
    [] c = "'" -> <<"&", "#", "0", "3", "9", ";">>
    [] OTHER -> <<c>>

RECURSIVE Escaped(_)
Escaped(chars) ==
  IF chars = <<>> THEN <<>>
  ELSE EscapedChar(Head(chars)) \o Escaped(Tail(chars))

\* C4: escapeHtml of a string is the string with every & < > " ' replaced by
\* &amp; &lt; &gt; &quot; &#039; and no inserted entity escaped again; a value
\* that is no string comes back unchanged.
C4_EscapesEveryCharacter ==
  ret # NotCalled =>
    IF IsText(arg) THEN IsText(ret) /\ Chars(ret.v) = Escaped(Chars(arg.v))
    ELSE ret = arg

\* the time a block displays, read back from its text
BlockTime(block) ==
  CHOOSE n \in 0..MaxClock : block.time = Str(toLocaleString(n))

Min(a, b) == IF a <= b THEN a ELSE b

AtLeast(seq, n) == Cardinality({i \in DOMAIN seq : seq[i] >= n})

\* C5: a 200 GET renders min(N, count) blocks, those of the records with the
\* greatest timestamps, in descending order of timestamp, and the placeholder
\* exactly when there is no record.
C5_TopNDescending ==
  resp.method = "GET" /\ resp.status = 200 =>
    \E page \in {resp.page[1]} :
      \E times \in {[i \in DOMAIN page.blocks |-> BlockTime(page.blocks[i])]} :
        \E stamps \in {[i \in DOMAIN store |-> store[i].data.timestamp.n]} :
          /\ Len(times) = Min(QueryLimit, Len(store))
          /\ Len(times) <= QueryLimit
          /\ page.placeholder <=> Len(store) = 0
          /\ \A i \in 1..(Len(times) - 1) : times[i] >= times[i + 1]
          /\ \A n \in 0..MaxClock :
               AtLeast(times, n) = Min(Len(times), AtLeast(stamps, n))

\* more records than the limit, and a record added last is rendered first
C5_Witness ==
  /\ resp.method = "GET" /\ resp.status = 200
  /\ Len(store) > QueryLimit
  /\ Len(resp.page[1].blocks) = QueryLimit
  /\ store[Len(store)].data.timestamp.n > store[1].data.timestamp.n
  /\ BlockTime(resp.page[1].blocks[1]) = store[Len(store)].data.timestamp.n

\* C6: the timestamps of the records never decrease in the order the records
\* were inserted.
C6_TimestampsInInsertionOrder ==
  \A i \in DOMAIN store : \A j \in DOMAIN store :
    i < j => store[i].data.timestamp.n <= store[j].data.timestamp.n

\* C7: when the store rejects the call of a POST or of a GET, the request is
\* answered 500 with the fixed text of its method, the call is not made
\* again, and no record is added.
C7_StoreFailureIs500 ==
  [][ Answered /\ call' = "rejected"
      => /\ resp'.status = 500
         /\ resp'.text = (IF resp'.method = "POST" THEN MsgPostError ELSE MsgGetError)
         /\ resp'.page = <<>>
         /\ store' = store
         /\ IF resp'.method = "POST"
            THEN \E i \in DOMAIN pending :
                   pending[i].req = resp'.req /\ pending' = Remove(pending, i)
            ELSE pending' = pending ]_vars

\* a POST answered 500 while the collection holds a record
C7_Witness ==
  /\ resp.method = "POST" /\ resp.status = 500 /\ call = "rejected"
  /\ Len(store) > 0

\* a record as the handler writes it
WrittenOk(data) ==
  /\ DOMAIN data = {"name", "message", "timestamp"}
  /\ IsText(data.name) /\ data.name.v # <<>>
  /\ Trim(data.name.v) = data.name.v
  /\ Length(data.name.v) <= NameMax
  /\ IsText(data.message) /\ data.message.v # <<>>
  /\ Trim(data.message.v) = data.message.v
  /\ Length(data.message.v) <= MessageMax
  /\ data.timestamp.k \in {"Date", "Timestamp"}
  /\ data.timestamp.n \in 0..clock

AllWrittenOk ==
  /\ \A i \in DOMAIN store : WrittenOk(store[i].data)
  /\ \A i \in DOMAIN pending : WrittenOk(pending[i].submission)

\* C8: every record the handler writes has string name and message, not
\* empty, trimmed, of at most 100 and 2000 characters, only the fields name,
\* message and timestamp, the timestamp being the server's clock when the
\* handler ran and the request having no say in it; a record in the store is
\* never changed or removed.
C8_RecordsWellFormed ==
  [][ /\ AllWrittenOk'
      /\ Len(store') >= Len(store)
      /\ SubSeq(store', 1, Len(store)) = store
      /\ Len(pending') > Len(pending) =>
           pending'[Len(pending')].submission.timestamp = Date(clock) ]_vars

\* a stored record at both limits, 100 and 2000 characters
C8_Witness ==
  \E i \in DOMAIN store :
    /\ Length(store[i].data.name.v) = NameMax
    /\ Length(store[i].data.message.v) = MessageMax

\* C9: a GET leaves the store as it was, and a 200 GET shows the page of the
\* 200 GET before it when no POST was stored between the two.
C9_GetIsReadOnlyAndRepeatable ==
  /\ [](resp.method = "GET" /\ resp.status = 200 /\ prevPage # <<>>
          => resp.page = prevPage)
  /\ [][Answered /\ resp'.method = "GET" => store' = store /\ pending' = pending]_vars

\* a second 200 GET of a collection that holds a record, later on the clock
C9_Witness ==
  /\ resp.method = "GET" /\ resp.status = 200 /\ prevPage # <<>>
  /\ Len(store) > 0 /\ clock > store[1].data.timestamp.n

\* C10: a GET whose query resolved is answered 200, with the placeholder for
\* the time of a record whose timestamp is absent or no timestamp, and for a
\* record with a timestamp the instant in data-timestamp and the formatted
\* time as text.
C10_TimestampRendering ==
  resp.method = "GET" /\ call = "resolved" =>
    /\ resp.status = 200
    /\ \E docs \in {Query(store)} :
         /\ Len(resp.page[1].blocks) = Len(docs)
         /\ \A i \in DOMAIN docs :
              IF docs[i].data.timestamp.k = "Timestamp"
              THEN /\ resp.page[1].blocks[i].stamp
                        = Str(toISOString(docs[i].data.timestamp.n))
                   /\ resp.page[1].blocks[i].time
                        = Str(toLocaleString(docs[i].data.timestamp.n))
              ELSE resp.page[1].blocks[i].time = NA

====
